---- MODULE Spec2Model ----
(***************************************************************************)
(* Host communication and state synchronisation layer of the log view:     *)
(*   treebuild/vscodeComm.ts  - transport, request correlation, dispatch,  *)
(*                              sequence counter, state store              *)
(*   the content ingestion controller (setContents, appendContents, ...)   *)
(***************************************************************************)
EXTENDS Integers, Sequences, FiniteSets, TLC

(* ------------------------------ bounds -------------------------------- *)
\* cap on the global sequence counter _lastMessageId
MaxSeq == 3
\* number of promises sendRequestToClient may create in one run
MaxPromises == 2
\* number of setContents activations in one run
MaxActivations == 3
\* cap on the length of opts.appendedContents
MaxAppended == 2

(* ------------------------------ values -------------------------------- *)
\* the JavaScript value undefined, where a string is expected
Undefined == "undefined"

RunIds == {"A", "B"}
Chunks == {"c1", "c2"}
Contents == {"x", "y"}
\* commands a request of this side may carry
Commands == {"setContents", "appendContents"}
\* bodies a response of the host may carry
Bodies == {Undefined, "ok"}
\* seq values a caller may put on a request
Seqs == {1, 2}

RequestMessages == [type : {"request"}, seq : Seqs, command : Commands]

ResponseMessages ==
    [type : {"response"}, seq : {1}, command : {"setContents"},
     request_seq : Seqs, body : Bodies]

\* An optional value is a set: {} when it is undefined, {v} when it is v.
FilterLevels == {"PASS", "FAIL"}
\* run id -> tree state mappings, as sets of <<run id, tree state>> pairs
TreeStateMaps == {{}, {<<"A", "t">>}}
LRULists == {<<>>, <<"A">>}

\* IState of protocols.ts: every field present
FullStates ==
    [filterLevel : {{f} : f \in FilterLevels},
     runIdToTreeState : {{m} : m \in TreeStateMaps},
     runIdLRU : {{l} : l \in LRULists}]

\* what the host's storage may hold: any field may be missing
PersistedStates ==
    [filterLevel : {{}} \cup {{f} : f \in FilterLevels},
     runIdToTreeState : {{}} \cup {{m} : m \in TreeStateMaps},
     runIdLRU : {{}} \cup {{l} : l \in LRULists}]

VARIABLES
    vscode,           \* TRUE iff the host binding is set (vscode !== undefined)
    msgIdToSeq,       \* pending registry: request seq -> index of the promise it resolves
    promises,         \* promises returned by sendRequestToClient, in creation order
    _lastMessageId,   \* the global sequence counter
    sentSeqs,         \* seq values carried so far by messages of this side: .caller
                      \* on requests, .own on events and on responses built here
    hostState,        \* what the host's getState() returns: {} or {state}
    _globalState,     \* the in-memory state
    opts,             \* the active options, getOpts()
    treeBuilder,      \* id of the current TreeBuilder, 0 when undefined
    building,         \* ids of the builders whose addInitialContents has not finished
    requestToHandler, \* command -> handler name, or Undefined
    windowGlobals,    \* TRUE iff window.onChangedRun / window.setContents are set
    channel,          \* appendContents messages produced by the host, not yet delivered
    activation,       \* number of setContents handled so far
    activated,        \* the run ids setContents made active, in order
    calls,            \* calls the last handler made to its collaborators, in order
    last              \* the last operation, its arguments and what it returned

commVars == <<msgIdToSeq, promises, _lastMessageId, sentSeqs>>
storeVars == <<hostState, _globalState>>
ctlVars == <<opts, treeBuilder, building, requestToHandler, windowGlobals, channel,
             activation, activated>>
vars == <<vscode, msgIdToSeq, promises, _lastMessageId, sentSeqs, hostState,
          _globalState, opts, treeBuilder, building, requestToHandler, windowGlobals,
          channel, activation, activated, calls, last>>

(* --------------------------- vscodeComm.ts ---------------------------- *)

\* setVSCodeAPI(api): vscode = api
SetVSCodeAPI ==
    /\ vscode' = TRUE
    /\ calls' = <<>>
    /\ last' = [op |-> "setVSCodeAPI"]
    /\ UNCHANGED <<commVars, storeVars, ctlVars>>

isInVSCode == vscode

\* mutant: the value is returned before the counter is advanced
NextSeqValueOld(n) == n

\* the value nextMessageSeq() returns when the counter holds n
NextSeqValue(n) == n + 1

\* nextMessageSeq() called on its own
NextMessageSeq ==
    /\ _lastMessageId < MaxSeq
    /\ _lastMessageId' = NextSeqValue(_lastMessageId)
    /\ calls' = <<>>
    /\ last' = [op |-> "nextMessageSeq", ret |-> _lastMessageId',
                allocated |-> <<_lastMessageId'>>]
    /\ UNCHANGED <<vscode, msgIdToSeq, promises, sentSeqs, storeVars, ctlVars>>

\* mutant: request_seq takes the fresh seq and seq the request's
SynthesizedResponseSwapped(message, seq) ==
    [type |-> "response", seq |-> message.seq, command |-> message.command,
     request_seq |-> seq, body |-> Undefined]

\* mutant: the response reuses the request's seq
SynthesizedResponseSameSeq(message, seq) ==
    [type |-> "response", seq |-> message.seq, command |-> message.command,
     request_seq |-> message.seq, body |-> Undefined]

\* the response sendRequestToClient builds when no host is bound
SynthesizedResponse(message, seq) ==
    [type |-> "response", seq |-> seq, command |-> message.command,
     request_seq |-> message.seq, body |-> Undefined]

\* a promise: the request it answers, how often its resolver ran, its value
NewPromise(message) == [request |-> message, resolveCalls |-> 0, value |-> {}]

\* resolve(response): only the first call settles the promise
Resolve(p, response) ==
    [p EXCEPT !.resolveCalls = @ + 1,
              !.value = IF p.value = {} THEN {response} ELSE @]

\* mutant: a key that is taken keeps its resolver
RegistryPutIfAbsent(reg, key, i) ==
    [k \in DOMAIN reg \cup {key} |-> IF k \in DOMAIN reg THEN reg[k] ELSE i]

\* msgIdToSeq[key] = the resolver of promise i
RegistryPut(reg, key, i) ==
    [k \in DOMAIN reg \cup {key} |-> IF k = key THEN i ELSE reg[k]]

\* mutant: the entry is left in the registry
RegistryKeep(reg, key) == reg

\* mutant: every entry is dropped
RegistryClear(reg, key) == <<>>

\* delete msgIdToSeq[key]
RegistryDelete(reg, key) == [k \in DOMAIN reg \ {key} |-> reg[k]]

\* sendRequestToClient(message)
SendRequestToClient(message) ==
    /\ Len(promises) < MaxPromises
    /\ IF vscode
       THEN /\ promises' = Append(promises, NewPromise(message))
            /\ msgIdToSeq' = RegistryPut(msgIdToSeq, message.seq, Len(promises) + 1)
            /\ calls' = <<[op |-> "msgIdToSeq.set", seq |-> message.seq],
                          [op |-> "postMessage", message |-> message]>>
            /\ sentSeqs' = [sentSeqs EXCEPT !.caller = @ \cup {message.seq}]
            /\ last' = [op |-> "sendRequestToClient", message |-> message,
                        hosted |-> TRUE, promise |-> Len(promises) + 1,
                        seqs |-> <<message.seq>>, own |-> <<>>, allocated |-> <<>>]
            /\ UNCHANGED _lastMessageId
       ELSE /\ _lastMessageId < MaxSeq
            /\ _lastMessageId' = NextSeqValue(_lastMessageId)
            /\ promises' = Append(promises,
                   Resolve(NewPromise(message),
                           SynthesizedResponse(message, _lastMessageId')))
            /\ calls' = <<>>
            /\ sentSeqs' =
                   [caller |-> sentSeqs.caller \cup {message.seq},
                    own |-> sentSeqs.own \cup
                            {SynthesizedResponse(message, _lastMessageId').seq}]
            /\ last' = [op |-> "sendRequestToClient", message |-> message,
                        hosted |-> FALSE, promise |-> Len(promises) + 1,
                        seqs |-> <<message.seq,
                                   SynthesizedResponse(message, _lastMessageId').seq>>,
                        own |-> <<SynthesizedResponse(message, _lastMessageId').seq>>,
                        allocated |-> <<_lastMessageId'>>]
            /\ UNCHANGED msgIdToSeq
    /\ UNCHANGED <<vscode, storeVars, ctlVars>>

\* mutant: the message is posted whether or not a host is bound
SendEventToClientAlways(message) == <<[op |-> "postMessage", message |-> message]>>

\* sendEventToClient(message): the calls it makes
SendEventToClient(message) ==
    IF vscode THEN <<[op |-> "postMessage", message |-> message]>> ELSE <<>>

\* event messages a caller hands to sendEventToClient
EventMessages ==
    [type : {"event"}, seq : Seqs, event : {"onSetCurrentRunId"}, data : {"A"}]

\* sendEventToClient(message) called on its own
SendEvent(message) ==
    /\ calls' = SendEventToClient(message)
    /\ sentSeqs' = [sentSeqs EXCEPT !.caller = @ \cup {message.seq}]
    /\ last' = [op |-> "sendEventToClient", message |-> message, hosted |-> vscode,
                seqs |-> <<message.seq>>, own |-> <<>>, allocated |-> <<>>]
    /\ UNCHANGED <<vscode, msgIdToSeq, promises, _lastMessageId, storeVars, ctlVars>>

\* mutant: the response's own seq is taken for the request's
ResponseKeyBySeq(responseMsg) == responseMsg.seq

\* the key the listener looks a response up by
ResponseKey(responseMsg) == responseMsg.request_seq

\* the 'message' listener, case 'response'
OnResponse(msg) ==
    /\ IF ResponseKey(msg) \in DOMAIN msgIdToSeq
       THEN /\ msgIdToSeq' = RegistryDelete(msgIdToSeq, ResponseKey(msg))
            /\ promises' = [promises EXCEPT ![msgIdToSeq[ResponseKey(msg)]] =
                                Resolve(@, msg)]
       ELSE UNCHANGED <<msgIdToSeq, promises>>
    /\ calls' = <<>>
    /\ last' = [op |-> "onResponse", msg |-> msg, pending |-> DOMAIN msgIdToSeq]
    /\ UNCHANGED <<vscode, _lastMessageId, sentSeqs, storeVars, ctlVars>>

\* eventToHandler: nothing registers a handler for 'output'
eventToHandler == [output |-> Undefined]

\* eventToHandler and requestToHandler are object literals: a name they do not
\* hold themselves is looked up in Object.prototype, where 'constructor' is a
\* function and '__proto__' an object that cannot be called
ObjectPrototype ==
    [k \in {"constructor", "__proto__"} |->
        IF k = "constructor" THEN "function Object" ELSE "object Object.prototype"]

Callable(value) == value # "object Object.prototype"

\* table[key]
Lookup(table, key) ==
    IF key \in DOMAIN table THEN table[key]
    ELSE IF key \in DOMAIN ObjectPrototype THEN ObjectPrototype[key]
    ELSE Undefined

\* the 'message' listener, cases 'event' and 'request': what is called for the
\* value found under the message's name; calling an object throws a TypeError
\* and the listener ends there
ListenerCalls(found, text, msg) ==
    IF found = Undefined
    THEN <<[op |-> "console.log", text |-> text, msg |-> msg]>>
    ELSE IF Callable(found) THEN <<[op |-> found, msg |-> msg]>>
    ELSE <<>>

ListenerThrew(found) == found # Undefined /\ ~Callable(found)

\* the 'message' listener, case 'event'
OnEvent(msg) ==
    /\ calls' = ListenerCalls(Lookup(eventToHandler, msg.event), "Unhandled event: ", msg)
    /\ last' = [op |-> "onEvent", msg |-> msg,
                threw |-> ListenerThrew(Lookup(eventToHandler, msg.event))]
    /\ UNCHANGED <<vscode, commVars, storeVars, ctlVars>>

(* ----------------------- state store, vscodeComm.ts ------------------- *)

DefaultState ==
    [filterLevel |-> {"PASS"}, runIdToTreeState |-> {{}}, runIdLRU |-> {<<>>}]

\* !x for an optional field: undefined is falsy, a string, object or array given
\* here is truthy (filter levels are non-empty strings)
Not(field) == field = {}

\* b === undefined for a boolean b
BooleanIsUndefined(b) == FALSE

\* lines 194-202 of getState: the defaults written into ret
Backfill(ret) ==
    [filterLevel |-> IF ret.filterLevel = {} THEN {"PASS"} ELSE ret.filterLevel,
     runIdToTreeState |->
         IF ret.runIdToTreeState = {} THEN {{}} ELSE ret.runIdToTreeState,
     runIdLRU |-> IF BooleanIsUndefined(Not(ret.runIdLRU)) THEN {<<>>}
                  ELSE ret.runIdLRU]

\* what a getState remembers of the operation before it
Before(l) == IF l.op = "setState" THEN l ELSE [op |-> l.op]

\* getState(): ret is written in place, into the host's object or, when the host
\* has none, into _globalState
GetState ==
    /\ IF vscode
       THEN IF hostState = {}
            THEN /\ _globalState' = Backfill(_globalState)
                 /\ last' = [op |-> "getState", hosted |-> TRUE, stored |-> hostState,
                             ret |-> _globalState', prev |-> Before(last)]
                 /\ UNCHANGED hostState
            ELSE /\ hostState' = {Backfill(s) : s \in hostState}
                 /\ last' = [op |-> "getState", hosted |-> TRUE, stored |-> hostState,
                             ret |-> CHOOSE s \in hostState' : TRUE, prev |-> Before(last)]
                 /\ UNCHANGED _globalState
       ELSE /\ last' = [op |-> "getState", hosted |-> FALSE, stored |-> hostState,
                        ret |-> _globalState, prev |-> Before(last)]
            /\ UNCHANGED <<hostState, _globalState>>
    /\ calls' = <<>>
    /\ UNCHANGED <<vscode, commVars, ctlVars>>

\* mutant: the state is kept in memory even when a host is bound
SetStateInMemory(state) ==
    /\ _globalState' = state
    /\ calls' = <<>>
    /\ last' = [op |-> "setState", hosted |-> vscode, state |-> state]
    /\ UNCHANGED <<vscode, hostState, commVars, ctlVars>>

\* setState(state)
SetState(state) ==
    /\ IF vscode
       THEN hostState' = {state} /\ UNCHANGED _globalState
       ELSE _globalState' = state /\ UNCHANGED hostState
    /\ calls' = IF vscode THEN <<[op |-> "vscode.setState", state |-> state]>> ELSE <<>>
    /\ last' = [op |-> "setState", hosted |-> vscode, state |-> state]
    /\ UNCHANGED <<vscode, commVars, ctlVars>>

(* -------------------- content ingestion controller -------------------- *)

LabelMaps == {"labels"}

SetContentsRequests ==
    [type : {"request"}, command : {"setContents"}, initialContents : Contents,
     runId : RunIds, allRunIdsToLabel : LabelMaps]

UpdateLabelRequests ==
    [type : {"request"}, command : {"updateLabel"}, runId : RunIds, label : {"l"}]

\* requests whose command has no entry in requestToHandler
UnknownRequests == [type : {"request"}, command : {"reload", "constructor", "__proto__"}]

\* inbound events: the reserved 'output' and names eventToHandler does not hold
InboundEvents ==
    [type : {"event"}, seq : {1}, event : {"output", "progress", "constructor", "__proto__"}]

\* the options before the first setContents
InitOpts ==
    [runId |-> Undefined, initialContents |-> Undefined, appendedContents |-> <<>>,
     allRunIdsToLabel |-> Undefined, showTime |-> TRUE, showExpand |-> FALSE,
     onClickReference |-> FALSE]

(* ---- persistTree.ts: the LRU discipline of the state store ---- *)

\* the cap on the number of runs whose tree state is kept
LRUCap == 2

\* the opaque tree state kept for a run
TreeState == "t"

RunIdsOf(map) == {p[1] : p \in map}

\* mutant: the run id is put at the least recently used end
MoveToLeastRecent(lru, runId) == <<runId>> \o SelectSeq(lru, LAMBDA e : e # runId)

\* runIdLRU with runId moved to, or inserted at, the most recently used end
MoveToMostRecent(lru, runId) == Append(SelectSeq(lru, LAMBDA e : e # runId), runId)

\* runIdLRU without the least recently used ids beyond the cap
Kept(lru) ==
    IF Len(lru) > LRUCap THEN SubSeq(lru, Len(lru) - LRUCap + 1, Len(lru)) ELSE lru

\* the state after runId became the active run
ActivateRun(state, runId) ==
    [state EXCEPT
        !.runIdLRU = {Kept(MoveToMostRecent(l, runId)) : l \in @},
        !.runIdToTreeState =
            {{p \in m \cup {<<r, TreeState>> : r \in {runId} \ RunIdsOf(m)} :
                 \E l \in state.runIdLRU, i \in 1..LRUCap :
                     /\ i <= Len(Kept(MoveToMostRecent(l, runId)))
                     /\ Kept(MoveToMostRecent(l, runId))[i] = p[1]} : m \in @}]

(* -------------------- content ingestion controller (2) ---------------- *)

\* mutant: the in-memory state is returned even when a host is bound
StoredStateInMemory == _globalState

\* what getState() returns
StoredState ==
    IF vscode
    THEN IF hostState = {} THEN Backfill(_globalState)
         ELSE Backfill(CHOOSE s \in hostState : TRUE)
    ELSE _globalState

\* setupGlobals()
SetupGlobals ==
    /\ requestToHandler' = [setContents |-> "setContents",
                            appendContents |-> "appendContents",
                            updateLabel |-> "updateLabel"]
    /\ windowGlobals' = TRUE
    /\ calls' = <<>>
    /\ last' = [op |-> "setupGlobals"]
    /\ UNCHANGED <<vscode, commVars, storeVars, opts, treeBuilder, building, channel,
                   activation, activated>>

\* mutant: the options are made anew
SetContentsOptsFresh(o, msg) ==
    [InitOpts EXCEPT !.runId = msg.runId,
                     !.initialContents = msg.initialContents,
                     !.onClickReference = isInVSCode,
                     !.allRunIdsToLabel = msg.allRunIdsToLabel]

\* setContents, lines 40-47: the options after the assignments
SetContentsOpts(o, msg) ==
    [o EXCEPT !.runId = msg.runId,
              !.initialContents = msg.initialContents,
              !.onClickReference = IF isInVSCode THEN TRUE ELSE @,
              !.appendedContents = <<>>,
              !.allRunIdsToLabel = msg.allRunIdsToLabel]

\* mutant: the tree state is saved after the options were replaced
SetContentsCallsSaveLate(o, msg, b) ==
    <<[op |-> "new TreeBuilder", builder |-> b],
      [op |-> "saveTreeState", runId |-> msg.runId],
      [op |-> "clearAndInitializeTree", builder |-> b, runId |-> msg.runId,
       initialContents |-> msg.initialContents, appendedContents |-> <<>>],
      [op |-> "addInitialContents", builder |-> b, runId |-> msg.runId,
       initialContents |-> msg.initialContents, appendedContents |-> <<>>]>>

\* setContents with rebuildTreeAndStatusesFromOpts: the calls made, in order, each
\* with the options it finds; b is the TreeBuilder constructed
SetContentsCalls(o, msg, b) ==
    <<[op |-> "saveTreeState", runId |-> o.runId],
      [op |-> "new TreeBuilder", builder |-> b],
      [op |-> "clearAndInitializeTree", builder |-> b,
       runId |-> SetContentsOpts(o, msg).runId,
       initialContents |-> SetContentsOpts(o, msg).initialContents,
       appendedContents |-> SetContentsOpts(o, msg).appendedContents],
      [op |-> "addInitialContents", builder |-> b,
       runId |-> SetContentsOpts(o, msg).runId,
       initialContents |-> SetContentsOpts(o, msg).initialContents,
       appendedContents |-> SetContentsOpts(o, msg).appendedContents]>>

\* setContents(msg); it returns while addInitialContents is still running
setContents(msg, via) ==
    /\ activation < MaxActivations
    /\ activation' = activation + 1
    /\ activated' = Append(activated, msg.runId)
    /\ opts' = SetContentsOpts(opts, msg)
    /\ treeBuilder' = activation + 1
    /\ building' = building \cup {activation + 1}
    /\ calls' = SetContentsCalls(opts, msg, activation + 1)
    /\ IF vscode
       THEN /\ hostState' = {ActivateRun(StoredState, msg.runId)}
            /\ _globalState' = IF hostState = {} THEN Backfill(_globalState)
                               ELSE _globalState
       ELSE /\ _globalState' = ActivateRun(StoredState, msg.runId)
            /\ UNCHANGED hostState
    /\ last' = [op |-> "setContents", via |-> via, msg |-> msg, hosted |-> vscode]
    /\ UNCHANGED <<vscode, commVars, requestToHandler, windowGlobals>>

\* the awaited addInitialContents of builder b finishes
AddInitialContentsDone(b) ==
    /\ b \in building
    /\ building' = building \ {b}
    /\ calls' = <<>>
    /\ last' = [op |-> "addInitialContentsDone", builder |-> b]
    /\ UNCHANGED <<vscode, commVars, storeVars, opts, treeBuilder, requestToHandler,
                   windowGlobals, channel, activation, activated>>

\* mutant: no guard, every chunk is taken
AppendAcceptedAlways(o, msg) == TRUE

\* mutant: the guard is inverted
AppendAcceptedOther(o, msg) == o.runId # msg.runId

\* appendContents, line 64: the stale-message guard
AppendAccepted(o, msg) == o.runId = msg.runId

\* mutant: the builder of the first setContents is notified
OnAppendedCallsFirst(tb) ==
    IF tb # 0 THEN <<[op |-> "onAppendedContents", builder |-> 1]>> ELSE <<>>

\* lines 66-68: treeBuilder.onAppendedContents() if there is a treeBuilder
OnAppendedCalls(tb) ==
    IF tb # 0 THEN <<[op |-> "onAppendedContents", builder |-> tb]>> ELSE <<>>

\* mutant: the chunk is put in front
PushFront(contents, chunk) == <<chunk>> \o contents

\* opts.appendedContents.push(msg.appendContents)
Push(contents, chunk) == Append(contents, chunk)

\* appendContents(msg)
appendContents(msg) ==
    /\ IF AppendAccepted(opts, msg)
       THEN /\ Len(opts.appendedContents) < MaxAppended
            /\ opts' = [opts EXCEPT !.appendedContents = Push(@, msg.appendContents)]
            /\ calls' = OnAppendedCalls(treeBuilder)
       ELSE /\ calls' = <<>>
            /\ UNCHANGED opts
    /\ last' = [op |-> "appendContents", msg |-> msg, activeRunId |-> opts.runId,
                activation |-> activation]
    /\ UNCHANGED <<vscode, commVars, storeVars, treeBuilder, building, requestToHandler,
                   windowGlobals, activation, activated>>

\* updateLabel(msg): reads the options and does nothing
updateLabel(msg) ==
    /\ calls' = <<>>
    /\ last' = [op |-> "updateLabel", msg |-> msg]
    /\ UNCHANGED <<vscode, commVars, storeVars, opts, treeBuilder, building,
                   requestToHandler, windowGlobals, activation, activated>>

\* the 'message' listener, case 'request', when requestToHandler[msg.command] is
\* none of the three handlers: undefined, or a member of Object.prototype
UnhandledRequest(msg) ==
    /\ calls' = ListenerCalls(Lookup(requestToHandler, msg.command),
                              "Unhandled request: ", msg)
    /\ last' = [op |-> "unhandledRequest", msg |-> msg,
                threw |-> ListenerThrew(Lookup(requestToHandler, msg.command))]
    /\ UNCHANGED <<vscode, commVars, storeVars, opts, treeBuilder, building,
                   requestToHandler, windowGlobals, activation, activated>>

\* requestToHandler[msg.command]
RequestHandler(msg) == Lookup(requestToHandler, msg.command)

\* the 'message' listener, case 'request'
Dispatch(msg) ==
    CASE RequestHandler(msg) = "setContents" -> setContents(msg, "request")
      [] RequestHandler(msg) = "appendContents" -> appendContents(msg)
      [] RequestHandler(msg) = "updateLabel" -> updateLabel(msg)
      [] OTHER -> UnhandledRequest(msg)

\* an inbound setContents, updateLabel or unknown request
OnRequest(msg) ==
    /\ Dispatch(msg)
    /\ UNCHANGED channel

\* the host produces an appendContents message for run r, one at a time; it is
\* meant for the activation that displays r now, if there is one (act 0: for none)
HostProducesAppend(r, c) ==
    /\ channel = {}
    /\ channel' = channel \cup
           {[type |-> "request", command |-> "appendContents", appendContents |-> c,
             runId |-> r, act |-> IF r = opts.runId THEN activation ELSE 0]}
    /\ calls' = <<>>
    /\ last' = [op |-> "hostProducesAppend"]
    /\ UNCHANGED <<vscode, commVars, storeVars, opts, treeBuilder, building,
                   requestToHandler, windowGlobals, activation, activated>>

\* an inbound appendContents request arrives
OnAppendContentsRequest(msg) ==
    /\ msg \in channel
    /\ channel' = channel \ {msg}
    /\ Dispatch(msg)

\* window.setContents(msg)
WindowSetContents(msg) ==
    /\ windowGlobals
    /\ setContents(msg, "window")
    /\ UNCHANGED channel

\* mutant: the flag is written to both fields
SetShowTimeOptsBoth(o, showTime) ==
    [o EXCEPT !.showTime = showTime, !.showExpand = showTime]

\* getOpts().showTime = showTime
SetShowTimeOpts(o, showTime) == [o EXCEPT !.showTime = showTime]

\* setShowTime(showTime)
SetShowTime(showTime) ==
    /\ opts' = SetShowTimeOpts(opts, showTime)
    /\ calls' = <<>>
    /\ last' = [op |-> "setShowTime", showTime |-> showTime]
    /\ UNCHANGED <<vscode, commVars, storeVars, treeBuilder, building, requestToHandler,
                   windowGlobals, channel, activation, activated>>

\* setShowExpand(showExpand)
SetShowExpand(showExpand) ==
    /\ opts' = [opts EXCEPT !.showExpand = showExpand]
    /\ calls' = <<>>
    /\ last' = [op |-> "setShowExpand", showExpand |-> showExpand]
    /\ UNCHANGED <<vscode, commVars, storeVars, treeBuilder, building, requestToHandler,
                   windowGlobals, channel, activation, activated>>

\* mutant: every event carries the first seq
EventMessageSeqOne(seq, event, data) ==
    [type |-> "event", seq |-> 1, event |-> event, data |-> data]

\* the event message onClickReference / onChangedRun builds
EventMessage(seq, event, data) ==
    [type |-> "event", seq |-> seq, event |-> event, data |-> data]

\* an outbound notification: a fresh seq, then sendEventToClient
Notify(op, event, data) ==
    /\ _lastMessageId < MaxSeq
    /\ _lastMessageId' = NextSeqValue(_lastMessageId)
    /\ calls' = SendEventToClient(EventMessage(_lastMessageId', event, data))
    /\ sentSeqs' = [sentSeqs EXCEPT
                        !.own = @ \cup {EventMessage(_lastMessageId', event, data).seq}]
    /\ last' = [op |-> op, ev |-> EventMessage(_lastMessageId', event, data),
                hosted |-> vscode,
                seqs |-> <<EventMessage(_lastMessageId', event, data).seq>>,
                own |-> <<EventMessage(_lastMessageId', event, data).seq>>,
                allocated |-> <<_lastMessageId'>>]
    /\ UNCHANGED <<vscode, msgIdToSeq, promises, storeVars, ctlVars>>

\* opts.onClickReference(message), once setContents has wired it
OnClickReference(message) ==
    /\ opts.onClickReference
    /\ Notify("onClickReference", "onClickReference", message)

\* window.onChangedRun(selectedRun)
OnChangedRun(selectedRun) ==
    /\ windowGlobals
    /\ Notify("onChangedRun", "onSetCurrentRunId", selectedRun)

(* --------------------------- specifications --------------------------- *)

InitWith(h) ==
    /\ hostState = h
    /\ vscode = FALSE
    /\ msgIdToSeq = <<>>
    /\ promises = <<>>
    /\ _lastMessageId = 0
    /\ sentSeqs = [caller |-> {}, own |-> {}]
    /\ _globalState = DefaultState
    /\ opts = InitOpts
    /\ treeBuilder = 0
    /\ building = {}
    /\ requestToHandler = [setContents |-> Undefined, appendContents |-> Undefined,
                           updateLabel |-> Undefined]
    /\ windowGlobals = FALSE
    /\ channel = {}
    /\ activation = 0
    /\ activated = <<>>
    /\ calls = <<>>
    /\ last = [op |-> "init"]

\* the host's storage holds nothing, or a state of an earlier session
Init == \E h \in {{}} \cup {{s} : s \in PersistedStates} : InitWith(h)

\* the same, the host's storage holding nothing
InitEmpty == InitWith({})

\* transport, correlation registry and dispatch of responses and events
NextComm ==
    \/ SetVSCodeAPI
    \/ NextMessageSeq
    \/ \E message \in RequestMessages : SendRequestToClient(message)
    \/ \E msg \in ResponseMessages : OnResponse(msg)
    \/ OnEvent([type |-> "event", seq |-> 1, event |-> "output"])

\* the sequence counter and every operation that puts a seq on a message
NextSeq ==
    \/ SetVSCodeAPI
    \/ NextMessageSeq
    \/ \E message \in RequestMessages : SendRequestToClient(message)
    \/ SetupGlobals
    \/ \E selectedRun \in {"A"} : OnChangedRun(selectedRun)
    \/ WindowSetContents([type |-> "request", command |-> "setContents",
                          initialContents |-> "x", runId |-> "A",
                          allRunIdsToLabel |-> Undefined])
    \/ OnClickReference("ref")

\* outbound events, next to a request that may be pending
NextEvents ==
    \/ SetVSCodeAPI
    \/ SetupGlobals
    \/ SendRequestToClient([type |-> "request", seq |-> 1, command |-> "setContents"])
    \/ \E message \in EventMessages : SendEvent(message)
    \/ \E selectedRun \in RunIds : OnChangedRun(selectedRun)
    \/ WindowSetContents([type |-> "request", command |-> "setContents",
                          initialContents |-> "x", runId |-> "A",
                          allRunIdsToLabel |-> Undefined])
    \/ OnClickReference("ref")

\* the 'message' listener: events and requests, before and after setupGlobals
NextDispatch ==
    \/ SetupGlobals
    \/ \E msg \in InboundEvents : OnEvent(msg)
    \/ \E msg \in SetContentsRequests \cup UpdateLabelRequests \cup UnknownRequests :
           OnRequest(msg)

\* state store
NextStore ==
    \/ SetVSCodeAPI
    \/ GetState
    \/ \E state \in FullStates : SetState(state)

\* content ingestion controller: the inbound requests and their handlers
NextCtl ==
    \/ SetVSCodeAPI
    \/ SetupGlobals
    \/ \E msg \in SetContentsRequests \cup UpdateLabelRequests
                  \cup {m \in UnknownRequests : m.command = "reload"} :
           OnRequest(msg)
    \/ \E r \in RunIds, c \in Chunks : HostProducesAppend(r, c)
    \/ \E msg \in channel : OnAppendContentsRequest(msg)
    \/ \E msg \in SetContentsRequests : WindowSetContents(msg)

\* the controller with the option toggles
NextView ==
    \/ SetVSCodeAPI
    \/ SetupGlobals
    \/ \E msg \in {m \in SetContentsRequests : m.initialContents = "x"} :
           WindowSetContents(msg)
    \/ \E r \in RunIds : HostProducesAppend(r, "c1")
    \/ \E msg \in channel : OnAppendContentsRequest(msg)
    \/ \E b \in BOOLEAN : SetShowTime(b)
    \/ \E b \in BOOLEAN : SetShowExpand(b)

\* rebuilds in flight and appends, from before the first setContents on; the host's
\* appendContents may carry the run id the options start with
NextBuild ==
    \/ SetupGlobals
    \/ \E msg \in {m \in SetContentsRequests : m.initialContents = "x"} : OnRequest(msg)
    \/ \E r \in RunIds \cup {InitOpts.runId}, c \in Chunks : HostProducesAppend(r, c)
    \/ \E msg \in channel : OnAppendContentsRequest(msg)
    \/ \E b \in building : AddInitialContentsDone(b)

\* setContents requests for three runs, one more than the cap
LRURequests ==
    [type : {"request"}, command : {"setContents"}, initialContents : {"x"},
     runId : {"A", "B", "C"}, allRunIdsToLabel : LabelMaps]

\* runs made active one after the other, with or without a host
NextLRU ==
    \/ SetVSCodeAPI
    \/ SetupGlobals
    \/ GetState
    \/ \E msg \in LRURequests : WindowSetContents(msg)

Next ==
    \/ NextComm \/ NextSeq \/ NextEvents \/ NextDispatch
    \/ NextStore \/ NextLRU \/ NextView \/ NextBuild

Spec == Init /\ [][Next]_vars
SpecComm == InitEmpty /\ [][NextComm]_vars
SpecSeq == InitEmpty /\ [][NextSeq]_vars
SpecStore == Init /\ [][NextStore]_vars
SpecCtl == InitEmpty /\ [][NextCtl]_vars
SpecEvents == InitEmpty /\ [][NextEvents]_vars
SpecDispatch == InitEmpty /\ [][NextDispatch]_vars
SpecBuild == InitEmpty /\ [][NextBuild]_vars
SpecLRU == InitEmpty /\ [][NextLRU]_vars
SpecView == InitEmpty /\ [][NextView]_vars

(* ------------------------------ claims -------------------------------- *)

\* C1: while no host is bound the registry holds nothing, and every promise
\* sendRequestToClient returned is resolved, by exactly one call of its resolver,
\* with a response of type 'response' that carries the request's seq as
\* request_seq, the request's command and an undefined body.
C1_NoHostRequestResolves ==
    ~vscode =>
        /\ DOMAIN msgIdToSeq = {}
        /\ \A i \in 1..Len(promises) :
               /\ promises[i].resolveCalls = 1
               /\ Cardinality(promises[i].value) = 1
               /\ \A r \in promises[i].value :
                      /\ r.type = "response"
                      /\ r.request_seq = promises[i].request.seq
                      /\ r.command = promises[i].request.command
                      /\ r.body = Undefined

\* two requests were sent with no host bound, the last one just now
C1_Witness ==
    /\ ~vscode
    /\ last.op = "sendRequestToClient"
    /\ Len(promises) = 2
    /\ promises[1].request.seq # promises[2].request.seq

\* the promises whose resolver the registry holds
PendingPromises(reg) == {reg[k] : k \in DOMAIN reg}

\* C2: a response whose request_seq is a key of the pending registry removes that
\* entry and no other, and resolves the promise registered under it, which answers
\* a request of that seq, with the whole response message, leaving every other
\* promise as it was; a promise still in the registry is unresolved and no
\* resolver ever runs twice, so a second response for the same request_seq finds
\* no entry.
C2_ResponseResolvesItsRequest ==
    [][/\ (last'.op = "onResponse" /\ last'.msg.request_seq \in DOMAIN msgIdToSeq) =>
            /\ DOMAIN msgIdToSeq' = DOMAIN msgIdToSeq \ {last'.msg.request_seq}
            /\ \A k \in DOMAIN msgIdToSeq' : msgIdToSeq'[k] = msgIdToSeq[k]
            /\ promises[msgIdToSeq[last'.msg.request_seq]].request.seq
                   = last'.msg.request_seq
            /\ \A i \in 1..Len(promises) :
                   IF i = msgIdToSeq[last'.msg.request_seq]
                   THEN /\ promises'[i].value = {last'.msg}
                        /\ promises'[i].resolveCalls = 1
                   ELSE promises'[i] = promises[i]
       /\ \A i \in 1..Len(promises') : promises'[i].resolveCalls <= 1
       /\ \A i \in PendingPromises(msgIdToSeq') : promises'[i].value = {}
      ]_vars

\* of two pending requests the one sent last was answered first: its promise holds
\* the response, the other one is still pending
C2_Witness ==
    /\ last.op = "onResponse"
    /\ Len(promises) = 2
    /\ promises[2].value = {last.msg}
    /\ promises[1].value = {}
    /\ DOMAIN msgIdToSeq = {promises[1].request.seq}

\* C3: a response whose request_seq is no key of the pending registry changes
\* neither the registry nor any promise, and makes no call.
C3_UnmatchedResponseDropped ==
    [][(last'.op = "onResponse" /\ last'.msg.request_seq \notin DOMAIN msgIdToSeq) =>
           /\ msgIdToSeq' = msgIdToSeq
           /\ promises' = promises
           /\ calls' = <<>>
           /\ UNCHANGED <<vscode, _lastMessageId, sentSeqs, storeVars, ctlVars>>
      ]_vars

\* a response for a request_seq that is not pending arrived while another request
\* was pending
C3_Witness ==
    /\ last.op = "onResponse"
    /\ last.msg.request_seq \notin last.pending
    /\ last.pending # {}
    /\ DOMAIN msgIdToSeq = last.pending

\* C4: an appendContents whose runId differs from the active run id changes none
\* of the options, appendedContents included, and calls nothing: no
\* onAppendedContents reaches the Tree Builder, which stays the same builder.
C4_AppendForOtherRunIsNoOp ==
    [][(last'.op = "appendContents" /\ last'.msg.runId # opts.runId) =>
           /\ opts' = opts
           /\ calls' = <<>>
           /\ UNCHANGED <<treeBuilder, building, activation>>
      ]_vars

\* run B is displayed by a builder and holds a chunk; an appendContents for run A
\* has just been handled
C4_Witness ==
    /\ last.op = "appendContents"
    /\ last.msg.runId = "A"
    /\ last.activeRunId = "B"
    /\ opts.runId = "B"
    /\ treeBuilder # 0
    /\ opts.appendedContents # <<>>

\* C5: setContents calls, in this order and once each, saveTreeState while the
\* previous run id is still the active one, then - the options now holding the
\* message's runId, initialContents and allRunIdsToLabel and no appended contents -
\* clearAndInitializeTree and addInitialContents on a TreeBuilder constructed in
\* between, which becomes the current builder; it never calls onAppendedContents.
C5_SetContentsSavesReplacesRebuilds ==
    [][(last'.op = "setContents") =>
           /\ Len(calls') = 4
           /\ calls'[1] = [op |-> "saveTreeState", runId |-> opts.runId]
           /\ opts'.runId = last'.msg.runId
           /\ opts'.initialContents = last'.msg.initialContents
           /\ opts'.allRunIdsToLabel = last'.msg.allRunIdsToLabel
           /\ opts'.appendedContents = <<>>
           /\ calls'[2] = [op |-> "new TreeBuilder", builder |-> treeBuilder']
           /\ treeBuilder' > treeBuilder
           /\ calls'[3] = [op |-> "clearAndInitializeTree", builder |-> treeBuilder',
                           runId |-> last'.msg.runId,
                           initialContents |-> last'.msg.initialContents,
                           appendedContents |-> <<>>]
           /\ calls'[4] = [op |-> "addInitialContents", builder |-> treeBuilder',
                           runId |-> last'.msg.runId,
                           initialContents |-> last'.msg.initialContents,
                           appendedContents |-> <<>>]
           /\ \A i \in 1..Len(calls') : calls'[i].op # "onAppendedContents"
      ]_vars

\* setContents for run B was handled while run A was active
C5_Witness ==
    /\ last.op = "setContents"
    /\ last.msg.runId = "B"
    /\ calls[1] = [op |-> "saveTreeState", runId |-> "A"]
    /\ opts.runId = "B"
    /\ activation = 2

\* C6 as stated: an appendContents message produced for an activation that a later
\* setContents has superseded never changes appendedContents and never notifies
\* the Tree Builder.
C6_SupersededAppendNeverTaken ==
    [][(/\ last'.op = "appendContents"
        /\ last'.msg.act >= 1
        /\ last'.msg.act < activation) =>
           /\ opts'.appendedContents = opts.appendedContents
           /\ calls' = <<>>
      ]_vars

\* C6, amended: such a message is dropped when its runId differs from the run id
\* active on arrival; when a later setContents has activated the same run id
\* again, its chunk is appended and the current builder is notified.
C6_SupersededAppendTakenOnlyForSameRunId ==
    [][(/\ last'.op = "appendContents"
        /\ last'.msg.act >= 1
        /\ last'.msg.act < activation) =>
           IF last'.msg.runId = opts.runId
           THEN /\ opts'.appendedContents =
                       Append(opts.appendedContents, last'.msg.appendContents)
                /\ calls' = <<[op |-> "onAppendedContents", builder |-> treeBuilder]>>
           ELSE /\ opts'.appendedContents = opts.appendedContents
                /\ calls' = <<>>
      ]_vars

\* a message produced for the first activation arrived after a setContents for
\* another run
C6_Witness ==
    /\ last.op = "appendContents"
    /\ last.msg.act = 1
    /\ last.activation = 2
    /\ last.msg.runId # last.activeRunId

\* C7: getState() called right after setState(state) returns state, with a host
\* bound (the state went through the host's setState and getState) and without
\* one (the state is _globalState).
C7_StateRoundTrip ==
    (last.op = "getState" /\ last.prev.op = "setState") =>
        /\ last.ret = last.prev.state
        /\ last.hosted = last.prev.hosted

\* with a host bound, a state other than the default one was set and then read
C7_Witness ==
    /\ last.op = "getState"
    /\ last.prev.op = "setState"
    /\ last.hosted
    /\ last.ret # DefaultState
    /\ hostState = {last.ret}

\* C8: when the host returns a state, getState() returns it with every missing
\* field set to its default (filterLevel 'PASS', runIdToTreeState empty, runIdLRU
\* empty) and every present field as it was; runIdLRU is never undefined.
C8_MissingFieldsDefaulted ==
    (last.op = "getState" /\ last.hosted /\ last.stored # {}) =>
        \A s \in last.stored :
            /\ last.ret.filterLevel =
                   (IF s.filterLevel = {} THEN {"PASS"} ELSE s.filterLevel)
            /\ last.ret.runIdToTreeState =
                   (IF s.runIdToTreeState = {} THEN {{}} ELSE s.runIdToTreeState)
            /\ last.ret.runIdLRU =
                   (IF s.runIdLRU = {} THEN {<<>>} ELSE s.runIdLRU)
            /\ last.ret.runIdLRU # {}

\* the values nextMessageSeq() returned in the last operation
Returned(l) == IF "allocated" \in DOMAIN l THEN l.allocated ELSE <<>>

\* C9: the counter holds the value of the last call of nextMessageSeq(), 0 before
\* the first; a call returns the counter's value plus one, so 1 the first time and
\* more than the call before it every time, and only a call changes the counter.
C9_NextMessageSeqIncreases ==
    [][IF Returned(last') # <<>>
       THEN /\ Len(Returned(last')) = 1
            /\ Returned(last')[1] = _lastMessageId + 1
            /\ Returned(last')[1] > _lastMessageId
            /\ _lastMessageId' = Returned(last')[1]
       ELSE _lastMessageId' = _lastMessageId
      ]_vars

\* nextMessageSeq() has been called three times, by a caller, for a response built
\* with no host and for an event
C9_Witness ==
    /\ _lastMessageId = 3
    /\ last.op = "onChangedRun"
    /\ last.allocated = <<3>>
    /\ Cardinality(sentSeqs.own) = 2

\* every seq of a sequence is larger than every seq of a set and than the ones
\* before it in the sequence
Increasing(seqs, earlier) ==
    /\ \A i \in 1..Len(seqs) : \A e \in earlier : seqs[i] > e
    /\ \A i, j \in 1..Len(seqs) : i < j => seqs[i] < seqs[j]

\* the seqs the messages of an operation carry
Carried(l, field) == IF field \in DOMAIN l THEN l[field] ELSE <<>>

\* C10 as stated: the seq of every message of this side - request, event or
\* response built with no host - is larger than the seq of every earlier one.
C10_AllSeqsUniqueIncreasing ==
    [][Increasing(Carried(last', "seqs"), sentSeqs.caller \cup sentSeqs.own)]_vars

\* C10, amended: the seq of every message this side builds itself - the events of
\* onClickReference and onChangedRun, the response built with no host - is the
\* value nextMessageSeq() returned for it and is larger than the seq of every
\* earlier such message; no such seq is ahead of the counter.
C10_OwnSeqsUniqueIncreasing ==
    [][/\ Increasing(Carried(last', "own"), sentSeqs.own)
       /\ Carried(last', "own") # <<>> => Carried(last', "own") = Returned(last')
       /\ \A e \in sentSeqs.own' : e <= _lastMessageId'
      ]_vars

\* an event of onClickReference, an event of onChangedRun and a response built
\* with no host have carried the seqs 1, 2 and 3
C10_Witness ==
    /\ sentSeqs.own = {1, 2, 3}
    /\ last.op = "onClickReference"
    /\ last.ev.seq = 3
    /\ Len(promises) = 1
    /\ windowGlobals
\* C11 as stated: with no host bound, the request {seq: 1, command: 'setContents'}
\* resolves to {type: 'response', seq: 2, command: 'setContents', request_seq: 1,
\* body: undefined}, a seq that differs from the request's.
C11_ScenarioResponseSeqTwo ==
    (/\ last.op = "sendRequestToClient"
     /\ ~last.hosted
     /\ last.message = [type |-> "request", seq |-> 1, command |-> "setContents"]) =>
        promises[last.promise].value =
            {[type |-> "response", seq |-> 2, command |-> "setContents",
              request_seq |-> 1, body |-> Undefined]}

\* C11, amended: with no host bound, a request whose seq is the value
\* nextMessageSeq() returned last resolves to the response that carries the next
\* value of the counter as seq - for {seq: 1, command: 'setContents'} the response
\* {seq: 2, command: 'setContents', request_seq: 1, body: undefined} - and that seq
\* differs from the request's.
C11_ResponseSeqFollowsCounter ==
    [][(/\ last'.op = "sendRequestToClient"
        /\ ~last'.hosted
        /\ last'.message.seq = _lastMessageId) =>
           /\ promises'[last'.promise].value =
                  {[type |-> "response", seq |-> last'.message.seq + 1,
                    command |-> last'.message.command,
                    request_seq |-> last'.message.seq, body |-> Undefined]}
           /\ \A r \in promises'[last'.promise].value : r.seq # last'.message.seq
      ]_vars

\* nextMessageSeq() returned 1, the request {seq: 1, command: 'setContents'} was
\* sent with no host and resolved with seq 2
C11_Witness ==
    /\ last.op = "sendRequestToClient"
    /\ ~last.hosted
    /\ last.message = [type |-> "request", seq |-> 1, command |-> "setContents"]
    /\ _lastMessageId = 2
    /\ promises[last.promise].value =
           {[type |-> "response", seq |-> 2, command |-> "setContents",
             request_seq |-> 1, body |-> Undefined]}
\* C12: an inbound event or request whose name has no registered handler (for
\* instance any request before setupGlobals) does not throw, calls no handler,
\* changes no protocol or run state and is only logged as 'Unhandled'.
\* The code finds inherited members of Object.prototype under such names.
C12_UnhandledInboundOnlyLogged ==
    [][last'.op \in {"onEvent", "unhandledRequest"} =>
          /\ ~last'.threw
          /\ Len(calls') = 1
          /\ calls'[1].op = "console.log"
          /\ calls'[1].msg = last'.msg
          /\ UNCHANGED <<vscode, commVars, storeVars, ctlVars>>
      ]_vars
\* the run ids of the stored runIdToTreeState and the stored runIdLRU
StoredRunIds == UNION {RunIdsOf(m) : m \in StoredState.runIdToTreeState}
StoredLRU == CHOOSE l \in StoredState.runIdLRU : TRUE

\* the distinct run ids made active after run id r was last made active
ActivatedAfter(r) ==
    {activated[j] : j \in {k \in 1..Len(activated) :
                              \A i \in 1..Len(activated) : activated[i] = r => i < k}}

Posted(cs) == SelectSeq(cs, LAMBDA c : c.op = "postMessage")

\* C14: sendEventToClient without a host posts nothing and leaves the registry,
\* the counter, the stored state and the active options as they are; with a host
\* it posts the event exactly once and records no pending request. The same holds
\* of the send inside onClickReference and onChangedRun, whose callers take the
\* event's seq from the counter first.
C14_SendEventPostsOnlyWhenHosted ==
    [][/\ last'.op = "sendEventToClient" =>
             /\ calls' = IF vscode THEN <<[op |-> "postMessage",
                                           message |-> last'.message]>>
                         ELSE <<>>
             /\ UNCHANGED <<vscode, msgIdToSeq, promises, _lastMessageId,
                            storeVars, ctlVars>>
       /\ last'.op \in {"onClickReference", "onChangedRun"} =>
             /\ Posted(calls') = IF vscode THEN <<[op |-> "postMessage",
                                                   message |-> last'.ev]>>
                                 ELSE <<>>
             /\ UNCHANGED <<vscode, msgIdToSeq, promises, storeVars, ctlVars>>
      ]_vars

\* an event was sent to the host while a request was pending
C14_Witness ==
    /\ last.op = "sendEventToClient"
    /\ last.hosted
    /\ Len(calls) = 1
    /\ DOMAIN msgIdToSeq # {}

\* an event was sent with no host bound, after the counter had advanced
C14_WitnessNoHost ==
    /\ last.op = "sendEventToClient"
    /\ ~last.hosted
    /\ calls = <<>>
    /\ _lastMessageId > 0
\* the calls that make up a full rebuild
RebuildOps == {"new TreeBuilder", "clearAndInitializeTree", "addInitialContents"}

\* C15: from the first setContents on, appendedContents holds, in arrival order,
\* exactly the chunks of the appendContents messages that arrived since the most
\* recent setContents with the run id that was active on arrival: setContents
\* empties it, such a message adds its chunk at the end, calls onAppendedContents
\* exactly once and rebuilds nothing, and no other step changes it.
C15_AppendedContentsAreTheAcceptedChunks ==
    [][activation' >= 1 =>
          /\ last'.op = "setContents" => opts'.appendedContents = <<>>
          /\ (last'.op = "appendContents" /\ last'.msg.runId = opts.runId) =>
                /\ opts'.appendedContents =
                       opts.appendedContents \o <<last'.msg.appendContents>>
                /\ Len(SelectSeq(calls', LAMBDA c : c.op = "onAppendedContents")) = 1
                /\ \A i \in 1..Len(calls') : calls'[i].op \notin RebuildOps
                /\ UNCHANGED <<treeBuilder, building>>
          /\ (last'.op = "appendContents" /\ last'.msg.runId # opts.runId) =>
                opts'.appendedContents = opts.appendedContents
          /\ last'.op \notin {"setContents", "appendContents"} =>
                opts'.appendedContents = opts.appendedContents
      ]_vars

\* two different chunks were accepted one after the other
C15_Witness ==
    /\ last.op = "appendContents"
    /\ last.msg.runId = last.activeRunId
    /\ opts.appendedContents = <<"c2", "c1">>
    /\ calls = <<[op |-> "onAppendedContents", builder |-> treeBuilder]>>
\* C16 as stated: a hosted send keys the resolver by a seq it takes from the global
\* counter for that send, so the key is never one that is still pending.
C16_HostedSendAllocatesItsKey ==
    [][(last'.op = "sendRequestToClient" /\ last'.hosted) =>
          /\ _lastMessageId' = NextSeqValue(_lastMessageId)
          /\ last'.message.seq = _lastMessageId'
          /\ last'.message.seq \notin DOMAIN msgIdToSeq
      ]_vars

\* C16: a hosted send records the resolver under the seq the caller put on the
\* request, then posts the message, and leaves the counter alone. Entries under
\* other keys are kept; a request still pending under the same seq loses its
\* entry to the new one.
C16_HostedSendKeysByCallerSeq ==
    [][(last'.op = "sendRequestToClient" /\ last'.hosted) =>
          /\ calls' = <<[op |-> "msgIdToSeq.set", seq |-> last'.message.seq],
                        [op |-> "postMessage", message |-> last'.message]>>
          /\ _lastMessageId' = _lastMessageId
          /\ DOMAIN msgIdToSeq' = DOMAIN msgIdToSeq \cup {last'.message.seq}
          /\ msgIdToSeq'[last'.message.seq] = last'.promise
          /\ promises'[last'.promise].request = last'.message
          /\ \A k \in DOMAIN msgIdToSeq \ {last'.message.seq} :
                 msgIdToSeq'[k] = msgIdToSeq[k]
          /\ last'.message.seq \in DOMAIN msgIdToSeq =>
                 \A k \in DOMAIN msgIdToSeq' :
                     msgIdToSeq'[k] # msgIdToSeq[last'.message.seq]
      ]_vars

\* a second request was sent to the host under the seq of one still pending: the
\* registry holds the second one only and the first is not resolved
C16_Witness ==
    /\ last.op = "sendRequestToClient"
    /\ last.hosted
    /\ last.promise = 2
    /\ promises[1].request.seq = promises[2].request.seq
    /\ promises[1].value = {}
    /\ DOMAIN msgIdToSeq = {last.message.seq}
    /\ msgIdToSeq[last.message.seq] = 2
\* promise i has its resolver in the registry reg
PendingIn(reg, i) == \E k \in DOMAIN reg : reg[k] = i

\* C17 as stated: the entry of a pending request leaves the registry, and its
\* promise changes, only when a response with its seq as request_seq arrives.
C17_OnlyMatchingResponseEndsPending ==
    [][\A i \in 1..Len(promises) :
          (PendingIn(msgIdToSeq, i) /\
              (~PendingIn(msgIdToSeq', i) \/ promises'[i] # promises[i])) =>
                 /\ last'.op = "onResponse"
                 /\ last'.msg.request_seq = promises[i].request.seq
      ]_vars

\* C17: the promise of a pending request is settled only by a response with its
\* seq as request_seq, which also removes its entry; the only other step that
\* takes its entry is a hosted send of a request with the same seq, after which it
\* stays unresolved. Events, other responses and other sends leave it pending.
C17_PendingUntilMatchingResponseOrSameSeqSend ==
    [][\A i \in 1..Len(promises) :
          PendingIn(msgIdToSeq, i) =>
             /\ promises'[i] # promises[i] =>
                    /\ last'.op = "onResponse"
                    /\ last'.msg.request_seq = promises[i].request.seq
                    /\ promises'[i].value = {last'.msg}
                    /\ ~PendingIn(msgIdToSeq', i)
             /\ (~PendingIn(msgIdToSeq', i) /\ promises'[i] = promises[i]) =>
                    /\ last'.op = "sendRequestToClient"
                    /\ last'.hosted
                    /\ last'.message.seq = promises[i].request.seq
                    /\ promises[i].value = {}
      ]_vars

\* a request is pending and unresolved after an event, or a response for another
\* seq, arrived
C17_Witness ==
    /\ last.op \in {"onEvent", "onResponse"}
    /\ \E k \in DOMAIN msgIdToSeq :
          /\ promises[msgIdToSeq[k]].value = {}
          /\ promises[msgIdToSeq[k]].request.seq = k
          /\ last.op = "onResponse" => last.msg.request_seq # k
    /\ Len(promises) = MaxPromises
\* C18: setShowTime changes showTime and setShowExpand changes showExpand, and
\* nothing else: the other options (runId, initialContents, appendedContents,
\* allRunIdsToLabel, the callback) stay, no builder is made or notified and no
\* message is sent.
C18_TogglesChangeOnlyTheirField ==
    [][/\ last'.op = "setShowTime" =>
             /\ opts' = [opts EXCEPT !.showTime = last'.showTime]
             /\ calls' = <<>>
             /\ UNCHANGED <<vscode, commVars, storeVars, treeBuilder, building,
                            requestToHandler, windowGlobals, channel, activation>>
       /\ last'.op = "setShowExpand" =>
             /\ opts' = [opts EXCEPT !.showExpand = last'.showExpand]
             /\ calls' = <<>>
             /\ UNCHANGED <<vscode, commVars, storeVars, treeBuilder, building,
                            requestToHandler, windowGlobals, channel, activation>>
      ]_vars

\* showTime was switched off while run A was displayed with a chunk appended
C18_Witness ==
    /\ last.op = "setShowTime"
    /\ ~opts.showTime
    /\ opts.showExpand
    /\ opts.runId = "A"
    /\ opts.appendedContents = <<"c1">>
    /\ treeBuilder # 0
\* C19: setContents writes into the options it finds: showTime and showExpand keep
\* their values, a callback wired by an earlier setContents stays wired, and one
\* is newly wired exactly when a host is bound at the time of the call.
C19_SetContentsKeepsTogglesAndCallback ==
    [][last'.op = "setContents" =>
          /\ opts'.showTime = opts.showTime
          /\ opts'.showExpand = opts.showExpand
          /\ opts.onClickReference => opts'.onClickReference
          /\ ~opts.onClickReference => (opts'.onClickReference <=> vscode)
      ]_vars

\* a second setContents found both toggles changed and the callback wired
C19_Witness ==
    /\ last.op = "setContents"
    /\ activation >= 2
    /\ ~opts.showTime
    /\ opts.showExpand
    /\ opts.onClickReference
    /\ opts.appendedContents = <<>>

\* a setContents with no host bound left the callback unwired
C19_WitnessNoHost ==
    /\ last.op = "setContents"
    /\ ~vscode
    /\ ~opts.onClickReference
    /\ ~opts.showTime
C20_WitnessBeforeFirstSetContents ==
    /\ last.op = "appendContents"
    /\ activation = 0
    /\ treeBuilder = 0
    /\ opts.appendedContents # <<>>
    /\ calls = <<>>
====
